---- MODULE Spec2Model ----
(***************************************************************************)
(* Janggi (Korean chess) rules engine, src/JanggiGame.py.                  *)
(*                                                                         *)
(* A position is a pair <<row, column>>, row 0..9, column 0..8.  The board *)
(* is a list of ten rows of nine slots; a slot holds 0 (the empty string   *)
(* of the source) or a piece.  A piece is an object of the source; here it *)
(* is its number 1..32 in creation order (blue 1..16, red 17..32), with    *)
(* its owner and type fixed at creation and its location a field that the  *)
(* game mutates.                                                           *)
(***************************************************************************)
EXTENDS Integers, Sequences, FiniteSets, TLC

\* The empty board slot ("" in the source).
Empty == 0

\* The location of a captured piece (None in the source).
None == << >>

PieceTypes == {"General", "Guard", "Horse", "Elephant", "Chariot", "Cannon", "Soldier"}

\* {(row, column) for row in range(10) for column in range(9)}
BoardCells == {<<row, column>> : row \in 0..9, column \in 0..8}

\* {(row, column) for row in range(7, 10) for column in range(3, 6)}
BlueFortress == {<<row, column>> : row \in 7..9, column \in 3..5}

\* {(row, column) for row in range(3) for column in range(3, 6)}
RedFortress == {<<row, column>> : row \in 0..2, column \in 3..5}

BlueDiagonalSpots == {<<7, 3>>, <<7, 5>>, <<9, 3>>, <<9, 5>>, <<8, 4>>}

RedDiagonalSpots == {<<0, 3>>, <<0, 5>>, <<2, 3>>, <<2, 5>>, <<1, 4>>}

\* board[row][column]
At(board, spot) == board[spot[1] + 1][spot[2] + 1]

\* board[row][column] = value
Put(board, spot, value) == [board EXCEPT ![spot[1] + 1][spot[2] + 1] = value]

(***************************************************************************)
(* Pieces.  piece_table lists, in creation order, what create_pieces       *)
(* builds: owner, type and initial location.                               *)
(***************************************************************************)
blue_initial ==
  << <<8, 4>>, << <<9, 3>>, <<9, 5>> >>, << <<9, 2>>, <<9, 7>> >>,
     << <<9, 1>>, <<9, 6>> >>, << <<9, 0>>, <<9, 8>> >>, << <<7, 1>>, <<7, 7>> >>,
     << <<6, 0>>, <<6, 2>>, <<6, 4>>, <<6, 6>>, <<6, 8>> >> >>

red_initial ==
  << <<1, 4>>, << <<0, 3>>, <<0, 5>> >>, << <<0, 2>>, <<0, 7>> >>,
     << <<0, 1>>, <<0, 6>> >>, << <<0, 0>>, <<0, 8>> >>, << <<2, 1>>, <<2, 7>> >>,
     << <<3, 0>>, <<3, 2>>, <<3, 4>>, <<3, 6>>, <<3, 8>> >> >>

\* The pieces one player gets, in the order create_pieces appends them.
created(owner, initial) ==
  << [owner |-> owner, type |-> "General", location |-> initial[1]] >>
  \o [k \in 1..10 |->
        LET number == (k - 1) \div 5
            kind == (k - 1) % 5
        IN [owner |-> owner,
            type |-> << "Guard", "Horse", "Elephant", "Chariot", "Cannon" >>[kind + 1],
            location |-> initial[kind + 2][number + 1]]]
  \o [number \in 1..5 |->
        [owner |-> owner, type |-> "Soldier", location |-> initial[7][number]]]

piece_table == created("blue", blue_initial) \o created("red", red_initial)

Pieces == 1..Len(piece_table)

get_owner(piece) == piece_table[piece].owner

get_type(piece) == piece_table[piece].type

Other(player) == IF player = "blue" THEN "red" ELSE "blue"

(***************************************************************************)
(* Legal moves of each piece class.  Every operator takes the board, the   *)
(* set of opposition positions and the piece's own location (self), and    *)
(* follows the recursion of the source: the operators named ..._step,      *)
(* ..._slide are the recursive calls with count >= 1.                      *)
(***************************************************************************)

\* Fortress_step that tests the spot against the board instead of the
\* fortress.
Fortress_step_on_board(board, opposition, fortress, spot) ==
  IF spot \notin BoardCells THEN {}
  ELSE IF At(board, spot) # Empty /\ spot \notin opposition THEN {}
  ELSE {spot}

\* General and Guard, count == 1: a fortress spot not held by a friendly piece.
Fortress_step(board, opposition, fortress, spot) ==
  IF spot \notin fortress THEN {}
  ELSE IF At(board, spot) # Empty /\ spot \notin opposition THEN {}
  ELSE {spot}

\* Fortress_get_legal_moves without the test of line 112 that the piece
\* stands on a diagonal spot.
Fortress_all_diagonals(board, opposition, self, fortress, diagonal_spots) ==
  LET row == self[1]
      column == self[2]
      step(spot) == Fortress_step(board, opposition, fortress, spot)
  IN IF self \notin fortress THEN {}
     ELSE step(<<row + 1, column + 1>>) \cup step(<<row + 1, column - 1>>)
          \cup step(<<row - 1, column + 1>>) \cup step(<<row - 1, column - 1>>)
          \cup step(<<row + 1, column>>) \cup step(<<row - 1, column>>)
          \cup step(<<row, column + 1>>) \cup step(<<row, column - 1>>)

\* General and Guard, count == 0.
Fortress_get_legal_moves(board, opposition, self, fortress, diagonal_spots) ==
  LET row == self[1]
      column == self[2]
      step(spot) == Fortress_step(board, opposition, fortress, spot)
  IN IF self \notin fortress THEN {}
     ELSE (IF self \in diagonal_spots
           THEN step(<<row + 1, column + 1>>) \cup step(<<row + 1, column - 1>>)
                \cup step(<<row - 1, column + 1>>) \cup step(<<row - 1, column - 1>>)
           ELSE {})
          \cup step(<<row + 1, column>>) \cup step(<<row - 1, column>>)
          \cup step(<<row, column + 1>>) \cup step(<<row, column - 1>>)

BlueGeneral_get_legal_moves(board, opposition, self) ==
  Fortress_get_legal_moves(board, opposition, self, BlueFortress, BlueDiagonalSpots)

RedGeneral_get_legal_moves(board, opposition, self) ==
  Fortress_get_legal_moves(board, opposition, self, RedFortress, RedDiagonalSpots)

BlueGuard_get_legal_moves(board, opposition, self) ==
  Fortress_get_legal_moves(board, opposition, self, BlueFortress, BlueDiagonalSpots)

RedGuard_get_legal_moves(board, opposition, self) ==
  Fortress_get_legal_moves(board, opposition, self, RedFortress, RedDiagonalSpots)

\* Horse, count == 2: the final spot.
Horse_final(board, opposition, spot) ==
  IF spot \notin BoardCells THEN {}
  ELSE IF At(board, spot) # Empty /\ spot \notin opposition THEN {}
  ELSE {spot}

\* Horse_step without the test of line 301 that the spot is empty.
Horse_step_over(board, opposition, self, spot) ==
  LET row == spot[1]
      column == spot[2]
      final(s) == Horse_final(board, opposition, s)
  IN IF spot \notin BoardCells THEN {}
     ELSE IF row > self[1]
          THEN final(<<row + 1, column + 1>>) \cup final(<<row + 1, column - 1>>)
     ELSE IF row < self[1]
          THEN final(<<row - 1, column + 1>>) \cup final(<<row - 1, column - 1>>)
     ELSE IF column > self[2]
          THEN final(<<row + 1, column + 1>>) \cup final(<<row - 1, column + 1>>)
     ELSE final(<<row + 1, column - 1>>) \cup final(<<row - 1, column - 1>>)

\* Horse, count == 1: the orthogonal step, which must be empty.
Horse_step(board, opposition, self, spot) ==
  LET row == spot[1]
      column == spot[2]
      final(s) == Horse_final(board, opposition, s)
  IN IF spot \notin BoardCells THEN {}
     ELSE IF At(board, spot) # Empty THEN {}
     ELSE IF row > self[1]
          THEN final(<<row + 1, column + 1>>) \cup final(<<row + 1, column - 1>>)
     ELSE IF row < self[1]
          THEN final(<<row - 1, column + 1>>) \cup final(<<row - 1, column - 1>>)
     ELSE IF column > self[2]
          THEN final(<<row + 1, column + 1>>) \cup final(<<row - 1, column + 1>>)
     ELSE final(<<row + 1, column - 1>>) \cup final(<<row - 1, column - 1>>)

Horse_get_legal_moves(board, opposition, self) ==
  LET row == self[1]
      column == self[2]
      step(spot) == Horse_step(board, opposition, self, spot)
  IN IF self \notin BoardCells THEN {}
     ELSE step(<<row + 1, column>>) \cup step(<<row - 1, column>>)
          \cup step(<<row, column + 1>>) \cup step(<<row, column - 1>>)

\* Elephant, count == 3: the final spot.
Elephant_final(board, opposition, spot) ==
  IF spot \notin BoardCells THEN {}
  ELSE IF At(board, spot) # Empty /\ spot \notin opposition THEN {}
  ELSE {spot}

\* Elephant, count == 2: the first diagonal spot, which must be empty; the
\* second diagonal step continues in the same direction.
Elephant_mid(board, opposition, spot, direction) ==
  LET row == spot[1]
      column == spot[2]
  IN IF spot \notin BoardCells THEN {}
     ELSE IF At(board, spot) # Empty THEN {}
     ELSE IF direction = "++" THEN Elephant_final(board, opposition, <<row + 1, column + 1>>)
     ELSE IF direction = "+-" THEN Elephant_final(board, opposition, <<row + 1, column - 1>>)
     ELSE IF direction = "-+" THEN Elephant_final(board, opposition, <<row - 1, column + 1>>)
     ELSE Elephant_final(board, opposition, <<row - 1, column - 1>>)

\* Elephant, count == 1: the orthogonal step, which must be empty.
Elephant_step(board, opposition, self, spot) ==
  LET row == spot[1]
      column == spot[2]
      mid(s, direction) == Elephant_mid(board, opposition, s, direction)
  IN IF spot \notin BoardCells THEN {}
     ELSE IF At(board, spot) # Empty THEN {}
     ELSE IF row > self[1]
          THEN mid(<<row + 1, column + 1>>, "++") \cup mid(<<row + 1, column - 1>>, "+-")
     ELSE IF row < self[1]
          THEN mid(<<row - 1, column + 1>>, "-+") \cup mid(<<row - 1, column - 1>>, "--")
     ELSE IF column > self[2]
          THEN mid(<<row + 1, column + 1>>, "++") \cup mid(<<row - 1, column + 1>>, "-+")
     ELSE mid(<<row + 1, column - 1>>, "+-") \cup mid(<<row - 1, column - 1>>, "--")

Elephant_get_legal_moves(board, opposition, self) ==
  LET row == self[1]
      column == self[2]
      step(spot) == Elephant_step(board, opposition, self, spot)
  IN IF self \notin BoardCells THEN {}
     ELSE step(<<row + 1, column>>) \cup step(<<row - 1, column>>)
          \cup step(<<row, column + 1>>) \cup step(<<row, column - 1>>)

\* The neighbour of a spot in a direction; the first sign is the row's, the
\* second the column's ("+=" is down the board, "=-" is left).
Advance(spot, direction) ==
  LET row == spot[1]
      column == spot[2]
  IN CASE direction = "+=" -> <<row + 1, column>>
       [] direction = "-=" -> <<row - 1, column>>
       [] direction = "=+" -> <<row, column + 1>>
       [] direction = "=-" -> <<row, column - 1>>
       [] direction = "++" -> <<row + 1, column + 1>>
       [] direction = "+-" -> <<row + 1, column - 1>>
       [] direction = "-+" -> <<row - 1, column + 1>>
       [] direction = "--" -> <<row - 1, column - 1>>

DiagonalDirections == {"++", "+-", "-+", "--"}

Directions == {"+=", "-=", "=+", "=-"} \cup DiagonalDirections

\* direction=None
NoDirection == "None"

\* Chariot.  current is the spot under examination (the piece's own location
\* in the outermost call, where direction is NoDirection).
RECURSIVE Chariot_moves(_, _, _, _, _)
Chariot_moves(board, opposition, self, current, direction) ==
  LET next(d) == Chariot_moves(board, opposition, self, Advance(current, d), d)
  IN IF current \notin BoardCells THEN {}
     ELSE IF direction \in DiagonalDirections
             /\ current \notin RedFortress /\ current \notin BlueFortress THEN {}
     ELSE IF self # current /\ At(board, current) # Empty /\ current \notin opposition
          THEN {}
     ELSE IF self # current /\ current \in opposition THEN {current}
     ELSE IF self # current /\ At(board, current) = Empty /\ direction \in Directions
          THEN {current} \cup next(direction)
     ELSE (IF current \in RedDiagonalSpots \cup BlueDiagonalSpots
           THEN next("++") \cup next("+-") \cup next("-+") \cup next("--")
           ELSE {})
          \cup next("+=") \cup next("-=") \cup next("=+") \cup next("=-")

\* A Chariot that is told of no opposition piece, and so takes none.
Chariot_takes_nothing(board, opposition, self) ==
  Chariot_moves(board, {}, self, self, NoDirection)

Chariot_get_legal_moves(board, opposition, self) ==
  Chariot_moves(board, opposition, self, self, NoDirection)

\* non_cannon_positions without the test of line 515 that the piece is not a
\* Cannon.
every_position(board) == {spot \in BoardCells : At(board, spot) # Empty}

\* Every position on the board that holds a piece that is not a Cannon.
non_cannon_positions(board) ==
  {spot \in BoardCells : At(board, spot) # Empty /\ get_type(At(board, spot)) # "Cannon"}

red_corners ==
  (<<0, 3>> :> <<2, 5>>) @@ (<<0, 5>> :> <<2, 3>>) @@ (<<2, 3>> :> <<0, 5>>)
  @@ (<<2, 5>> :> <<0, 3>>)

blue_corners ==
  (<<7, 3>> :> <<9, 5>>) @@ (<<7, 5>> :> <<9, 3>>) @@ (<<9, 3>> :> <<7, 5>>)
  @@ (<<9, 5>> :> <<7, 3>>)

\* Cannon.  count is the number of non-Cannon pieces passed so far; in the
\* orthogonal branches any direction other than "+=", "-=", "=+" is taken as
\* "=-" (the final else of the source).
OrthogonalOf(direction) == IF direction \in {"+=", "-=", "=+"} THEN direction ELSE "=-"

RECURSIVE Cannon_moves(_, _, _, _, _, _, _)
Cannon_moves(board, opposition, self, positions, count, current, direction) ==
  LET d == OrthogonalOf(direction)
      next(n, dir) ==
        Cannon_moves(board, opposition, self, positions, n, Advance(current, dir), dir)
  IN IF current \notin BoardCells THEN {}
     ELSE IF current # self /\ At(board, current) # Empty /\ current \notin positions
          THEN {}
     ELSE IF count > 1 THEN {}
     ELSE IF count = 1 /\ current \in opposition THEN {current}
     ELSE IF count = 1 /\ At(board, current) = Empty THEN {current} \cup next(count, d)
     ELSE IF At(board, current) = Empty THEN next(count, d)
     ELSE IF current \in positions THEN next(count + 1, d)
     ELSE (IF self \in DOMAIN red_corners /\ <<0, 4>> \in positions
           THEN {red_corners[self]} ELSE {})
          \cup (IF self \in DOMAIN blue_corners /\ <<8, 4>> \in positions
                THEN {blue_corners[self]} ELSE {})
          \cup next(count, "+=") \cup next(count, "-=")
          \cup next(count, "=+") \cup next(count, "=-")

Cannon_get_legal_moves(board, opposition, self) ==
  UNION {Cannon_moves(board, opposition, self, positions, 0, self, NoDirection)
         : positions \in {non_cannon_positions(board)}}

\* Soldier_step without the test of lines 619 and 668 that the spot is
\* on the board.
Soldier_step_unbounded(board, opposition, spot) ==
  IF spot \in BoardCells /\ At(board, spot) # Empty /\ spot \notin opposition THEN {}
  ELSE {spot}

\* Soldier, count == 1: a board spot not held by a friendly piece.
Soldier_step(board, opposition, spot) ==
  IF spot \notin BoardCells THEN {}
  ELSE IF At(board, spot) # Empty /\ spot \notin opposition THEN {}
  ELSE {spot}

RedSoldier_get_legal_moves(board, opposition, self) ==
  LET row == self[1]
      column == self[2]
      step(spot) == Soldier_step(board, opposition, spot)
  IN IF self \notin BoardCells THEN {}
     ELSE (IF self = <<8, 4>> THEN {<<9, 3>>, <<9, 5>>}
           ELSE IF self \in {<<7, 3>>, <<7, 5>>} THEN {<<8, 4>>}
           ELSE {})
          \cup step(<<row + 1, column>>) \cup step(<<row, column + 1>>)
          \cup step(<<row, column - 1>>)

\* A Blue Soldier that advances as a Red one does.
BlueSoldier_down_the_board(board, opposition, self) ==
  RedSoldier_get_legal_moves(board, opposition, self)

BlueSoldier_get_legal_moves(board, opposition, self) ==
  LET row == self[1]
      column == self[2]
      step(spot) == Soldier_step(board, opposition, spot)
  IN IF self \notin BoardCells THEN {}
     ELSE (IF self = <<1, 4>> THEN {<<0, 3>>, <<0, 5>>}
           ELSE IF self \in {<<2, 3>>, <<2, 5>>} THEN {<<1, 4>>}
           ELSE {})
          \cup step(<<row - 1, column>>) \cup step(<<row, column + 1>>)
          \cup step(<<row, column - 1>>)

\* piece.get_legal_moves(board, opposition): dispatch on the piece's class.
get_legal_moves(piece, board, opposition, self) ==
  LET type == get_type(piece)
      blue == get_owner(piece) = "blue"
  IN CASE type = "General" ->
            IF blue THEN BlueGeneral_get_legal_moves(board, opposition, self)
            ELSE RedGeneral_get_legal_moves(board, opposition, self)
       [] type = "Guard" ->
            IF blue THEN BlueGuard_get_legal_moves(board, opposition, self)
            ELSE RedGuard_get_legal_moves(board, opposition, self)
       [] type = "Horse" -> Horse_get_legal_moves(board, opposition, self)
       [] type = "Elephant" -> Elephant_get_legal_moves(board, opposition, self)
       [] type = "Chariot" -> Chariot_get_legal_moves(board, opposition, self)
       [] type = "Cannon" -> Cannon_get_legal_moves(board, opposition, self)
       [] type = "Soldier" ->
            IF blue THEN BlueSoldier_get_legal_moves(board, opposition, self)
            ELSE RedSoldier_get_legal_moves(board, opposition, self)

(***************************************************************************)
(* JanggiGame.  A game value g is the object's fields: the board, the two  *)
(* lists of pieces still in the game, whose turn it is and the game state, *)
(* together with the location field of every piece object.                 *)
(***************************************************************************)

Range(list) == {list[i] : i \in DOMAIN list}

\* list.remove(x): the list without the first occurrence of x.
Remove(list, x) ==
  LET first == CHOOSE i \in DOMAIN list : list[i] = x /\ \A j \in 1..(i - 1) : list[j] # x
  IN SubSeq(list, 1, first - 1) \o SubSeq(list, first + 1, Len(list))

\* create_board on an empty board: the rows, then add_pieces.
create_board ==
  [row \in 1..10 |->
     [column \in 1..9 |->
        IF \E piece \in Pieces : piece_table[piece].location = <<row - 1, column - 1>>
        THEN CHOOSE piece \in Pieces : piece_table[piece].location = <<row - 1, column - 1>>
        ELSE Empty]]

\* A construction that gives the first turn to Red.
new_game_red_first ==
  [board |-> create_board,
   blue_pieces |-> [i \in 1..Len(created("blue", blue_initial)) |-> i],
   red_pieces |-> [i \in 1..Len(created("red", red_initial)) |->
                     Len(created("blue", blue_initial)) + i],
   location |-> [piece \in Pieces |-> piece_table[piece].location],
   game_state |-> "UNFINISHED",
   current_turn |-> "red"]

\* JanggiGame(): the object after construction.
new_game ==
  [board |-> create_board,
   blue_pieces |-> [i \in 1..Len(created("blue", blue_initial)) |-> i],
   red_pieces |-> [i \in 1..Len(created("red", red_initial)) |->
                     Len(created("blue", blue_initial)) + i],
   location |-> [piece \in Pieces |-> piece_table[piece].location],
   game_state |-> "UNFINISHED",
   current_turn |-> "blue"]

get_opposition_positions(g, player) ==
  IF player = "blue"
  THEN {g.location[piece] : piece \in Range(g.red_pieces)}
  ELSE {g.location[piece] : piece \in Range(g.blue_pieces)}

\* get_opposition(): the player who is not to move.
get_opposition(g) == IF g.current_turn = "blue" THEN "red" ELSE "blue"

\* change_turn that leaves the turn with the player who moved.
change_turn_kept(g) == g

change_turn(g) ==
  [g EXCEPT !.current_turn = IF g.current_turn = "blue" THEN "red" ELSE "blue"]

\* set_game_state that records nothing.
set_game_state_unrecorded(g, player) == g

set_game_state(g, player) ==
  [g EXCEPT !.game_state = IF player = "blue" THEN "BLUE_WON" ELSE "RED_WON"]

\* piece.get_legal_moves(board, opposition positions of the piece's owner)
legal_moves_of(g, piece) ==
  get_legal_moves(piece, g.board, get_opposition_positions(g, get_owner(piece)),
                  g.location[piece])

\* The location of the last General in a list, None when it holds no General.
general_position(g, list) ==
  LET generals == {i \in DOMAIN list : get_type(list[i]) = "General"}
  IN IF generals = {} THEN None
     ELSE g.location[list[CHOOSE i \in generals : \A j \in generals : j <= i]]

\* is_in_check that never finds a General attacked.
is_in_check_never(g, player) == FALSE

is_in_check(g, player) ==
  IF player = "blue"
  THEN \E opposition \in {get_opposition_positions(g, "red")} :
         general_position(g, g.blue_pieces)
           \in UNION {get_legal_moves(piece, g.board, opposition, g.location[piece])
                      : piece \in Range(g.red_pieces)}
  ELSE \E opposition \in {get_opposition_positions(g, "blue")} :
         general_position(g, g.red_pieces)
           \in UNION {get_legal_moves(piece, g.board, opposition, g.location[piece])
                      : piece \in Range(g.blue_pieces)}

\* capture without lines 922 and 949: the captured piece keeps its location.
capture_keeps_location(g, move_to) ==
  LET opponent == At(g.board, move_to)
  IN IF opponent = Empty THEN g
     ELSE IF opponent \in Range(g.red_pieces)
     THEN [g EXCEPT !.board = Put(g.board, move_to, Empty),
                    !.red_pieces = Remove(g.red_pieces, opponent)]
     ELSE [g EXCEPT !.board = Put(g.board, move_to, Empty),
                    !.blue_pieces = Remove(g.blue_pieces, opponent)]

\* The capture both update_board and leaves_in_check make when move_to is
\* occupied: the piece leaves the board, its location becomes None and it is
\* removed from the red list if it is there, from the blue list otherwise.
capture(g, move_to) ==
  LET opponent == At(g.board, move_to)
  IN IF opponent = Empty THEN g
     ELSE IF opponent \in Range(g.red_pieces)
     THEN [g EXCEPT !.board = Put(g.board, move_to, Empty),
                    !.location[opponent] = None,
                    !.red_pieces = Remove(g.red_pieces, opponent)]
     ELSE [g EXCEPT !.board = Put(g.board, move_to, Empty),
                    !.location[opponent] = None,
                    !.blue_pieces = Remove(g.blue_pieces, opponent)]

\* update_board without line 917: the piece also stays on move_from.
update_board_not_lifted(g, move_from, move_to) ==
  LET piece == At(g.board, move_from)
      taken == capture(g, move_to)
  IN [taken EXCEPT !.board = Put(taken.board, move_to, piece),
                   !.location[piece] = move_to]

\* The piece on move_from is lifted, what stands on move_to is captured and
\* the piece is put on move_to.
update_board(g, move_from, move_to) ==
  LET piece == At(g.board, move_from)
      taken == capture([g EXCEPT !.board = Put(g.board, move_from, Empty)], move_to)
  IN [taken EXCEPT !.board = Put(taken.board, move_to, piece),
                   !.location[piece] = move_to]

\* put_back without lines 969-976: the captured opponent stays off the board
\* and out of its list.
put_back_without_opponent(moved, move_from, move_to, opponent) ==
  LET piece == At(moved.board, move_to)
  IN [moved EXCEPT !.board = Put(Put(moved.board, move_from, piece), move_to, Empty),
                   !.location[piece] = move_from]

\* put_back that appends the captured opponent to its list twice.
put_back_twice(moved, move_from, move_to, opponent) ==
  LET piece == At(moved.board, move_to)
      back == [moved EXCEPT !.board = Put(moved.board, move_from, piece),
                            !.location[piece] = move_from]
  IN IF opponent # Empty
     THEN IF get_owner(opponent) = "blue"
          THEN [back EXCEPT !.board = Put(back.board, move_to, opponent),
                            !.location[opponent] = move_to,
                            !.blue_pieces = Append(Append(back.blue_pieces, opponent), opponent)]
          ELSE [back EXCEPT !.board = Put(back.board, move_to, opponent),
                            !.location[opponent] = move_to,
                            !.red_pieces = Append(Append(back.red_pieces, opponent), opponent)]
     ELSE [back EXCEPT !.board = Put(back.board, move_to, Empty)]

\* The second half of leaves_in_check: from the game with the move made
\* (moved), the piece goes back to move_from and the captured opponent (Empty
\* when there was none) back to move_to and to the end of its owner's list.
put_back(moved, move_from, move_to, opponent) ==
  LET piece == At(moved.board, move_to)
      back == [moved EXCEPT !.board = Put(moved.board, move_from, piece),
                            !.location[piece] = move_from]
  IN IF opponent # Empty
     THEN IF get_owner(opponent) = "blue"
          THEN [back EXCEPT !.board = Put(back.board, move_to, opponent),
                            !.location[opponent] = move_to,
                            !.blue_pieces = Append(back.blue_pieces, opponent)]
          ELSE [back EXCEPT !.board = Put(back.board, move_to, opponent),
                            !.location[opponent] = move_to,
                            !.red_pieces = Append(back.red_pieces, opponent)]
     ELSE [back EXCEPT !.board = Put(back.board, move_to, Empty)]

\* leaves_in_check that never finds the mover in check.
leaves_in_check_unseen(g, move_from, move_to) == [ret |-> FALSE, g |-> g]

\* leaves_in_check: the answer (ret) and the game as the call leaves it (g).
\* The first half makes the move as update_board does.
leaves_in_check(g, move_from, move_to) ==
  LET piece == At(g.board, move_from)
      opponent == At(Put(g.board, move_from, Empty), move_to)
      taken == capture([g EXCEPT !.board = Put(g.board, move_from, Empty)], move_to)
  IN CHOOSE result \in
       {[ret |-> is_in_check(moved, get_owner(piece)),
         g |-> put_back(moved, move_from, move_to, opponent)]
        : moved \in {[taken EXCEPT !.board = Put(taken.board, move_to, piece),
                                   !.location[piece] = move_to]}} : TRUE

(***************************************************************************)
(* is_check_mate iterates the player's list by index while leaves_in_check *)
(* removes and re-appends captured pieces, and iterates each piece's moves *)
(* (a set) in an order the language leaves open.  The operators below give *)
(* the set of outcomes over all iteration orders.                          *)
(***************************************************************************)

\* The inner loop "for move_to in moves" for one piece, from game g with the
\* moves in rest still to come: escaped tells whether a move that does not
\* leave the player in check was met (the method then returns False).  A move
\* whose simulation answers True and leaves g as it is has no effect wherever
\* it comes in the order, and is skipped.
RECURSIVE moves_loop(_, _, _)
moves_loop(g, piece, rest) ==
  UNION {IF \A move_to \in rest : sim[move_to].ret /\ sim[move_to].g = g
         THEN {[escaped |-> FALSE, g |-> g]}
         ELSE UNION {IF ~sim[move_to].ret
                     THEN {[escaped |-> TRUE, g |-> sim[move_to].g]}
                     ELSE moves_loop(sim[move_to].g, piece,
                                     {m \in rest : ~sim[m].ret \/ sim[m].g # g}
                                       \ {move_to})
                     : move_to \in {m \in rest : ~sim[m].ret \/ sim[m].g # g}}
         : sim \in {[move_to \in rest |->
                       leaves_in_check(g, g.location[piece], move_to)]}}

\* The outer loop "for piece in pieces" from index i (1-based) on.
RECURSIVE pieces_loop(_, _, _)
pieces_loop(g, player, i) ==
  LET list == IF player = "red" THEN g.red_pieces ELSE g.blue_pieces
  IN IF i > Len(list) THEN {[ret |-> TRUE, g |-> g]}
     ELSE UNION {IF after.escaped THEN {[ret |-> FALSE, g |-> after.g]}
                 ELSE pieces_loop(after.g, player, i + 1)
                 : after \in moves_loop(g, list[i],
                                        get_legal_moves(list[i], g.board,
                                                        get_opposition_positions(g, player),
                                                        g.location[list[i]]))}

\* is_check_mate that never finds a mate.
is_check_mate_never(g, player) == {[ret |-> FALSE, g |-> g]}

\* is_check_mate(player): every (ret, g) the call can end with.
is_check_mate(g, player) == pieces_loop(g, player, 1)

\* The translate table of make_move.
translate ==
  [a |-> 0, b |-> 1, c |-> 2, d |-> 3, e |-> 4, f |-> 5, g |-> 6, h |-> 7, i |-> 8]

\* to_row_column that counts the rows from the other edge: row 10 is the
\* internal row 0.
to_row_column_from_blue_edge(move) == <<10 - move[2], translate[move[1]]>>

\* A square in algebraic notation is <<letter, number>>: "a7" is <<"a", 7>>.
\* (int(move[1:]) - 1, translate[move[0]])
to_row_column(move) == <<move[2] - 1, translate[move[1]]>>

Squares == {<<letter, number>> : letter \in DOMAIN translate, number \in 1..10}

\* move_piece without the test of line 890: the move is made whether or not
\* it leaves the mover in check.
move_piece_unscreened(g, from_position, to_position) ==
  UNION
    {IF is_in_check(made, get_opposition(made))
     THEN {IF mate.ret
           THEN [ret |-> TRUE, g |-> set_game_state(mate.g, g.current_turn)]
           ELSE [ret |-> TRUE, g |-> change_turn(mate.g)]
           : mate \in is_check_mate(made, get_opposition(made))}
     ELSE {[ret |-> TRUE, g |-> change_turn(made)]}
     : made \in {update_board(g, from_position, to_position)}}

\* The last part of make_move, lines 890-903, for a piece of the player to
\* move and a target among its legal moves: every (ret, g) it can end with.
move_piece(g, from_position, to_position) ==
  UNION
    {IF tried.ret THEN {[ret |-> FALSE, g |-> tried.g]}
     ELSE UNION
       {IF is_in_check(made, get_opposition(made))
        THEN {IF mate.ret
              THEN [ret |-> TRUE, g |-> set_game_state(mate.g, g.current_turn)]
              ELSE [ret |-> TRUE, g |-> change_turn(mate.g)]
              : mate \in is_check_mate(made, get_opposition(made))}
        ELSE {[ret |-> TRUE, g |-> change_turn(made)]}
        : made \in {update_board(tried.g, from_position, to_position)}}
     : tried \in {leaves_in_check(g, from_position, to_position)}}

\* make_move without the test of the game state (line 870).
make_move_after_end(g, move_from, move_to) ==
  LET to_position == to_row_column(move_to)
      from_position == to_row_column(move_from)
      piece == At(g.board, from_position)
      player == get_owner(piece)
      refused == {[ret |-> FALSE, g |-> g]}
  IN IF piece = Empty THEN refused
     ELSE IF player # g.current_turn THEN refused
     ELSE IF move_from = move_to /\ ~is_in_check(g, player)
          THEN {[ret |-> TRUE, g |-> change_turn(g)]}
     ELSE IF to_position \notin get_legal_moves(piece, g.board,
                                               get_opposition_positions(g, player),
                                               g.location[piece])
          THEN refused
     ELSE move_piece(g, from_position, to_position)

\* make_move without the test of the piece's owner (line 879).
make_move_any_owner(g, move_from, move_to) ==
  LET to_position == to_row_column(move_to)
      from_position == to_row_column(move_from)
      piece == At(g.board, from_position)
      player == get_owner(piece)
      refused == {[ret |-> FALSE, g |-> g]}
  IN IF g.game_state # "UNFINISHED" THEN refused
     ELSE IF piece = Empty THEN refused
     ELSE IF move_from = move_to /\ ~is_in_check(g, player)
          THEN {[ret |-> TRUE, g |-> change_turn(g)]}
     ELSE IF to_position \notin get_legal_moves(piece, g.board,
                                               get_opposition_positions(g, player),
                                               g.location[piece])
          THEN refused
     ELSE move_piece(g, from_position, to_position)

\* make_move that lets a player in check pass (line 883 without its second
\* condition).
make_move_pass_in_check(g, move_from, move_to) ==
  LET to_position == to_row_column(move_to)
      from_position == to_row_column(move_from)
      piece == At(g.board, from_position)
      player == get_owner(piece)
      refused == {[ret |-> FALSE, g |-> g]}
  IN IF g.game_state # "UNFINISHED" THEN refused
     ELSE IF piece = Empty THEN refused
     ELSE IF player # g.current_turn THEN refused
     ELSE IF move_from = move_to
          THEN {[ret |-> TRUE, g |-> change_turn(g)]}
     ELSE IF to_position \notin get_legal_moves(piece, g.board,
                                               get_opposition_positions(g, player),
                                               g.location[piece])
          THEN refused
     ELSE move_piece(g, from_position, to_position)

\* make_move(move_from, move_to): every (ret, g) the call can end with.
make_move(g, move_from, move_to) ==
  LET to_position == to_row_column(move_to)
      from_position == to_row_column(move_from)
      piece == At(g.board, from_position)
      player == get_owner(piece)
      refused == {[ret |-> FALSE, g |-> g]}
  IN IF g.game_state # "UNFINISHED" THEN refused
     ELSE IF piece = Empty THEN refused
     ELSE IF player # g.current_turn THEN refused
     ELSE IF move_from = move_to /\ ~is_in_check(g, player)
          THEN {[ret |-> TRUE, g |-> change_turn(g)]}
     ELSE IF to_position \notin get_legal_moves(piece, g.board,
                                               get_opposition_positions(g, player),
                                               g.location[piece])
          THEN refused
     ELSE move_piece(g, from_position, to_position)

(***************************************************************************)
(* The drivers.  A scenario is a list of calls made on a new game: the two *)
(* games main() plays, prefixes of the second that stop where a player is  *)
(* in check or one move before the mate, and two games in which Red brings *)
(* a Cannon to a corner of its own fortress.                               *)
(***************************************************************************)

\* main(), lines 1078-1088.
readme_test ==
  <<<<"make_move", <<"c", 1>>, <<"e", 3>>>>, <<"make_move", <<"a", 7>>, <<"b", 7>>>>,
     <<"make_move", <<"a", 4>>, <<"a", 5>>>>, <<"make_move", <<"b", 7>>, <<"b", 6>>>>,
     <<"make_move", <<"b", 3>>, <<"b", 6>>>>, <<"make_move", <<"a", 1>>, <<"a", 4>>>>,
     <<"make_move", <<"c", 7>>, <<"d", 7>>>>, <<"make_move", <<"a", 4>>, <<"a", 4>>>> >>

\* main(), lines 1091-1287.
recorded_game ==
  <<<<"make_move", <<"a", 7>>, <<"a", 6>>>>, <<"make_move", <<"c", 4>>, <<"c", 5>>>>,
     <<"make_move", <<"a", 6>>, <<"b", 5>>>>, <<"make_move", <<"a", 6>>, <<"a", 5>>>>,
     <<"make_move", <<"i", 4>>, <<"h", 5>>>>, <<"make_move", <<"c", 1>>, <<"d", 3>>>>,
     <<"make_move", <<"e", 7>>, <<"e", 6>>>>, <<"make_move", <<"d", 3>>, <<"e", 5>>>>,
     <<"make_move", <<"a", 4>>, <<"b", 3>>>>, <<"make_move", <<"g", 10>>, <<"e", 7>>>>,
     <<"make_move", <<"e", 5>>, <<"d", 7>>>>, <<"make_move", <<"e", 5>>, <<"c", 4>>>>,
     <<"make_move", <<"e", 7>>, <<"h", 5>>>>, <<"make_move", <<"d", 1>>, <<"c", 1>>>>,
     <<"make_move", <<"e", 2>>, <<"d", 3>>>>, <<"make_move", <<"e", 9>>, <<"g", 9>>>>,
     <<"make_move", <<"f", 10>>, <<"g", 10>>>>,
     <<"make_move", <<"b", 10>>, <<"c", 8>>>>,
     <<"make_move", <<"c", 10>>, <<"d", 8>>>>, <<"make_move", <<"f", 1>>, <<"e", 2>>>>,
     <<"make_move", <<"a", 10>>, <<"a", 5>>>>,
     <<"make_move", <<"a", 10>>, <<"a", 6>>>>, <<"make_move", <<"h", 3>>, <<"f", 3>>>>,
     <<"make_move", <<"h", 3>>, <<"h", 7>>>>, <<"make_move", <<"h", 8>>, <<"h", 6>>>>,
     <<"make_move", <<"a", 6>>, <<"d", 6>>>>, <<"is_check_mate", "red">>,
     <<"make_move", <<"a", 4>>, <<"a", 5>>>>, <<"make_move", <<"b", 1>>, <<"d", 4>>>>,
     <<"make_move", <<"f", 10>>, <<"f", 9>>>>, <<"make_move", <<"h", 7>>, <<"f", 7>>>>,
     <<"make_move", <<"h", 5>>, <<"f", 2>>>>, <<"make_move", <<"f", 7>>, <<"f", 10>>>>,
     <<"make_move", <<"h", 10>>, <<"g", 8>>>>,
     <<"make_move", <<"f", 10>>, <<"c", 7>>>>,
     <<"make_move", <<"f", 10>>, <<"d", 8>>>>, <<"make_move", <<"a", 5>>, <<"a", 4>>>>,
     <<"make_move", <<"a", 1>>, <<"a", 4>>>>, <<"make_move", <<"e", 9>>, <<"d", 8>>>>,
     <<"make_move", <<"e", 2>>, <<"f", 2>>>>, <<"make_move", <<"i", 7>>, <<"i", 6>>>>,
     <<"make_move", <<"c", 5>>, <<"c", 6>>>>, <<"make_move", <<"d", 6>>, <<"c", 6>>>>,
     <<"make_move", <<"a", 4>>, <<"b", 4>>>>, <<"make_move", <<"b", 10>>, <<"d", 7>>>>,
     <<"make_move", <<"b", 4>>, <<"b", 8>>>>, <<"make_move", <<"d", 8>>, <<"e", 9>>>>,
     <<"make_move", <<"b", 3>>, <<"b", 9>>>>, <<"make_move", <<"h", 8>>, <<"b", 8>>>>,
     <<"make_move", <<"b", 9>>, <<"f", 9>>>>, <<"make_move", <<"e", 9>>, <<"f", 9>>>>,
     <<"make_move", <<"h", 1>>, <<"g", 3>>>>, <<"make_move", <<"c", 6>>, <<"c", 4>>>>,
     <<"make_move", <<"i", 4>>, <<"i", 5>>>>, <<"make_move", <<"i", 6>>, <<"i", 5>>>>,
     <<"make_move", <<"g", 4>>, <<"g", 5>>>>, <<"make_move", <<"c", 4>>, <<"c", 3>>>>,
     <<"make_move", <<"d", 3>>, <<"e", 2>>>>, <<"make_move", <<"c", 3>>, <<"g", 3>>>>,
     <<"make_move", <<"f", 2>>, <<"f", 3>>>>, <<"make_move", <<"d", 7>>, <<"b", 4>>>>,
     <<"make_move", <<"e", 2>>, <<"e", 1>>>>, <<"make_move", <<"g", 3>>, <<"g", 5>>>>,
     <<"make_move", <<"d", 4>>, <<"f", 1>>>>, <<"make_move", <<"b", 8>>, <<"b", 1>>>>,
     <<"make_move", <<"e", 1>>, <<"f", 2>>>>, <<"make_move", <<"d", 1>>, <<"d", 2>>>>,
     <<"make_move", <<"g", 5>>, <<"g", 3>>>>, <<"make_move", <<"f", 1>>, <<"d", 4>>>>,
     <<"make_move", <<"b", 1>>, <<"g", 1>>>>, <<"make_move", <<"i", 1>>, <<"h", 1>>>>,
     <<"make_move", <<"i", 10>>, <<"h", 10>>>>,
     <<"make_move", <<"h", 1>>, <<"h", 10>>>>,
     <<"make_move", <<"g", 8>>, <<"h", 10>>>>, <<"make_move", <<"e", 4>>, <<"f", 4>>>>,
     <<"make_move", <<"g", 3>>, <<"g", 2>>>>, <<"make_move", <<"d", 2>>, <<"d", 3>>>>,
     <<"make_move", <<"g", 2>>, <<"g", 4>>>>, <<"make_move", <<"e", 1>>, <<"e", 2>>>>,
     <<"make_move", <<"g", 4>>, <<"f", 4>>>>, <<"make_move", <<"d", 4>>, <<"a", 6>>>>,
     <<"make_move", <<"e", 6>>, <<"e", 5>>>>, <<"make_move", <<"a", 6>>, <<"c", 9>>>>,
     <<"make_move", <<"e", 5>>, <<"e", 4>>>>, <<"make_move", <<"c", 9>>, <<"e", 6>>>>,
     <<"make_move", <<"b", 4>>, <<"e", 6>>>>, <<"make_move", <<"d", 3>>, <<"d", 2>>>>,
     <<"make_move", <<"h", 10>>, <<"g", 8>>>>, <<"make_move", <<"e", 2>>, <<"e", 1>>>>,
     <<"make_move", <<"f", 4>>, <<"f", 3>>>>, <<"make_move", <<"d", 2>>, <<"e", 2>>>>,
     <<"make_move", <<"e", 4>>, <<"e", 3>>>>, <<"make_move", <<"e", 1>>, <<"e", 1>>>>,
     <<"make_move", <<"e", 6>>, <<"h", 4>>>>, <<"make_move", <<"e", 1>>, <<"e", 1>>>>,
     <<"make_move", <<"f", 3>>, <<"e", 2>>>>, <<"is_check_mate", "red">>,
     <<"make_move", <<"e", 1>>, <<"e", 2>>>>, <<"make_move", <<"e", 2>>, <<"e", 2>>>> >>

\* Blue passes every turn; Red plays e2-e1, a1-a2, a2-c2, c2-c3 and b3-d3.
own_guard_game ==
  <<<<"make_move", <<"a", 7>>, <<"a", 7>>>>, <<"make_move", <<"e", 2>>, <<"e", 1>>>>,
     <<"make_move", <<"a", 7>>, <<"a", 7>>>>, <<"make_move", <<"a", 1>>, <<"a", 2>>>>,
     <<"make_move", <<"a", 7>>, <<"a", 7>>>>, <<"make_move", <<"a", 2>>, <<"c", 2>>>>,
     <<"make_move", <<"a", 7>>, <<"a", 7>>>>, <<"make_move", <<"c", 2>>, <<"c", 3>>>>,
     <<"make_move", <<"a", 7>>, <<"a", 7>>>>, <<"make_move", <<"b", 3>>, <<"d", 3>>>>,
     <<"make_move", <<"a", 7>>, <<"a", 7>>>> >>

\* Red brings its General to e1, a Guard to e2, a Chariot to f1 and, over a
\* Horse on d3, a Cannon to f3; Blue brings a Cannon to e8 and then, over the
\* Soldier on e4, to e3, from where it attacks the General over the Guard.
corner_cannon_game ==
  <<<<"make_move", <<"a", 7>>, <<"a", 7>>>>, <<"make_move", <<"e", 2>>, <<"e", 1>>>>,
     <<"make_move", <<"c", 10>>, <<"d", 8>>>>, <<"make_move", <<"f", 1>>, <<"e", 2>>>>,
     <<"make_move", <<"e", 7>>, <<"d", 7>>>>, <<"make_move", <<"i", 1>>, <<"i", 2>>>>,
     <<"make_move", <<"b", 8>>, <<"e", 8>>>>, <<"make_move", <<"i", 2>>, <<"f", 2>>>>,
     <<"make_move", <<"a", 7>>, <<"a", 7>>>>, <<"make_move", <<"f", 2>>, <<"f", 1>>>>,
     <<"make_move", <<"a", 7>>, <<"a", 7>>>>, <<"make_move", <<"c", 1>>, <<"d", 3>>>>,
     <<"make_move", <<"a", 7>>, <<"a", 7>>>>, <<"make_move", <<"b", 3>>, <<"f", 3>>>>,
     <<"make_move", <<"a", 7>>, <<"a", 7>>>>, <<"make_move", <<"d", 3>>, <<"c", 1>>>>,
     <<"make_move", <<"e", 8>>, <<"e", 3>>>> >>

\* Red brings its General to e1, a Guard to f2 and, over that Guard, a Cannon
\* to f1; the other Cannon goes over a Horse on g3 to d3, the corner opposite
\* f1.
two_cannon_game ==
  <<<<"make_move", <<"a", 7>>, <<"a", 7>>>>, <<"make_move", <<"e", 2>>, <<"e", 1>>>>,
     <<"make_move", <<"a", 7>>, <<"a", 7>>>>, <<"make_move", <<"c", 1>>, <<"d", 3>>>>,
     <<"make_move", <<"a", 7>>, <<"a", 7>>>>, <<"make_move", <<"b", 3>>, <<"f", 3>>>>,
     <<"make_move", <<"a", 7>>, <<"a", 7>>>>, <<"make_move", <<"f", 1>>, <<"f", 2>>>>,
     <<"make_move", <<"a", 7>>, <<"a", 7>>>>, <<"make_move", <<"f", 3>>, <<"f", 1>>>>,
     <<"make_move", <<"a", 7>>, <<"a", 7>>>>, <<"make_move", <<"d", 3>>, <<"c", 1>>>>,
     <<"make_move", <<"a", 7>>, <<"a", 7>>>>, <<"make_move", <<"h", 1>>, <<"g", 3>>>>,
     <<"make_move", <<"a", 7>>, <<"a", 7>>>>, <<"make_move", <<"h", 3>>, <<"d", 3>>>>,
     <<"make_move", <<"a", 7>>, <<"a", 7>>>> >>

\* Red brings its General to f1, a Guard to e1 and, over a Chariot on c3, a
\* Cannon to d3, the corner opposite f1.
own_general_game ==
  <<<<"make_move", <<"a", 7>>, <<"a", 7>>>>, <<"make_move", <<"f", 1>>, <<"f", 2>>>>,
     <<"make_move", <<"a", 7>>, <<"a", 7>>>>, <<"make_move", <<"e", 2>>, <<"f", 1>>>>,
     <<"make_move", <<"a", 7>>, <<"a", 7>>>>, <<"make_move", <<"d", 1>>, <<"e", 1>>>>,
     <<"make_move", <<"a", 7>>, <<"a", 7>>>>, <<"make_move", <<"a", 1>>, <<"a", 2>>>>,
     <<"make_move", <<"a", 7>>, <<"a", 7>>>>, <<"make_move", <<"a", 2>>, <<"c", 2>>>>,
     <<"make_move", <<"a", 7>>, <<"a", 7>>>>, <<"make_move", <<"c", 2>>, <<"c", 3>>>>,
     <<"make_move", <<"a", 7>>, <<"a", 7>>>>, <<"make_move", <<"b", 3>>, <<"d", 3>>>>,
     <<"make_move", <<"a", 7>>, <<"a", 7>>>>, <<"make_move", <<"d", 3>>, <<"f", 1>>>>,
     <<"make_move", <<"a", 7>>, <<"a", 7>>>> >>

\* The recorded game up to the check of line 1141 and the test of line 1144.
check_game == SubSeq(recorded_game, 1, 27)

\* The recorded game up to the pass of line 1280, one move before the mate.
before_mate_game == SubSeq(recorded_game, 1, 95)

Scenarios ==
  << readme_test, recorded_game, check_game, before_mate_game, own_guard_game,
     corner_cannon_game, two_cannon_game, own_general_game >>

\* Calls off the script are made from the last ProbeTail + 1 positions of a
\* scenario.
ProbeTail == 1

VARIABLES
  board,          \* JanggiGame._board
  blue_pieces,    \* JanggiGame._blue_pieces
  red_pieces,     \* JanggiGame._red_pieces
  location,       \* JanggiPiece._location of every piece
  game_state,     \* JanggiGame._game_state
  current_turn,   \* JanggiGame._current_turn
  scenario,       \* the scenario being played
  pc,             \* the number of its calls made so far
  probed,         \* TRUE once a call off the script has been made
  call,           \* the last call: its name and arguments
  ret             \* what the last call returned

game_vars == <<board, blue_pieces, red_pieces, location, game_state, current_turn>>

vars == <<board, blue_pieces, red_pieces, location, game_state, current_turn,
          scenario, pc, probed, call, ret>>

\* The game object as a value.
game ==
  [board |-> board, blue_pieces |-> blue_pieces, red_pieces |-> red_pieces,
   location |-> location, game_state |-> game_state, current_turn |-> current_turn]

\* The game object becomes g.
Becomes(g) ==
  /\ board' = g.board
  /\ blue_pieces' = g.blue_pieces
  /\ red_pieces' = g.red_pieces
  /\ location' = g.location
  /\ game_state' = g.game_state
  /\ current_turn' = g.current_turn

Init ==
  /\ board = new_game.board
  /\ blue_pieces = new_game.blue_pieces
  /\ red_pieces = new_game.red_pieces
  /\ location = new_game.location
  /\ game_state = new_game.game_state
  /\ current_turn = new_game.current_turn
  /\ scenario \in DOMAIN Scenarios
  /\ pc = 0
  /\ probed = FALSE
  /\ call = <<"JanggiGame">>
  /\ ret = TRUE

\* game.make_move(move_from, move_to)
MakeMove(move_from, move_to) ==
  /\ call' = <<"make_move", move_from, move_to>>
  /\ \E outcome \in make_move(game, move_from, move_to) :
       /\ ret' = outcome.ret
       /\ Becomes(outcome.g)

\* game.is_check_mate(player)
IsCheckMate(player) ==
  /\ call' = <<"is_check_mate", player>>
  /\ \E outcome \in is_check_mate(game, player) :
       /\ ret' = outcome.ret
       /\ Becomes(outcome.g)

\* game.leaves_in_check(move_from, move_to), called on its own.
LeavesInCheck(move_from, move_to) ==
  /\ call' = <<"leaves_in_check", move_from, move_to>>
  /\ ret' = leaves_in_check(game, move_from, move_to).ret
  /\ Becomes(leaves_in_check(game, move_from, move_to).g)

\* game.is_in_check(player): the game is left as it is.
IsInCheck(player) ==
  /\ call' = <<"is_in_check", player>>
  /\ ret' = is_in_check(game, player)
  /\ UNCHANGED game_vars

Script == Scenarios[scenario]

\* The next make_move call of the scenario.
ReplayMove ==
  /\ ~probed
  /\ pc < Len(Script)
  /\ Script[pc + 1][1] = "make_move"
  /\ MakeMove(Script[pc + 1][2], Script[pc + 1][3])
  /\ pc' = pc + 1
  /\ UNCHANGED <<scenario, probed>>

\* The next is_check_mate call of the scenario.
ReplayCheckMate ==
  /\ ~probed
  /\ pc < Len(Script)
  /\ Script[pc + 1][1] = "is_check_mate"
  /\ IsCheckMate(Script[pc + 1][2])
  /\ pc' = pc + 1
  /\ UNCHANGED <<scenario, probed>>

\* is_in_check asked between two calls of the scenario, as main() does on
\* lines 1081, 1119, 1120 and 1143.
AskInCheck ==
  /\ ~probed
  /\ \E player \in {"blue", "red"} : IsInCheck(player)
  /\ UNCHANGED <<scenario, pc, probed>>

CanProbe == ~probed /\ pc >= Len(Script) - ProbeTail

\* One make_move call off the script, with any two squares.
ProbeMove ==
  /\ CanProbe
  /\ \E move_from \in Squares, move_to \in Squares : MakeMove(move_from, move_to)
  /\ probed' = TRUE
  /\ UNCHANGED <<scenario, pc>>

\* One leaves_in_check call off the script, from any position that holds a
\* piece to any position.
ProbeLeavesInCheck ==
  /\ CanProbe
  /\ \E move_from \in BoardCells, move_to \in BoardCells :
       /\ At(board, move_from) # Empty
       /\ LeavesInCheck(move_from, move_to)
  /\ probed' = TRUE
  /\ UNCHANGED <<scenario, pc>>

Next == ReplayMove \/ ReplayCheckMate \/ AskInCheck \/ ProbeMove

Spec == Init /\ [][Next]_vars

NextSim == ReplayMove \/ ReplayCheckMate \/ AskInCheck \/ ProbeMove \/ ProbeLeavesInCheck

\* The games with leaves_in_check also called from outside.
SpecSim == Init /\ [][NextSim]_vars

(***************************************************************************)
(* get_legal_moves called on boards of a few pieces.  A board holds one    *)
(* piece of any class and owner (the subject) and up to MaxOthers other    *)
(* pieces: a Soldier and a Cannon of each side.  The subject stands alone  *)
(* anywhere on the board, or with the others in the area around one of the *)
(* two fortresses.                                                         *)
(***************************************************************************)
MaxOthers == 2

\* One piece of every class and owner.
SubjectPieces == {1, 2, 3, 4, 5, 6, 12, 17, 18, 19, 20, 21, 22, 28}

\* A Cannon and a Soldier of each side.
OtherPieces == {11, 13, 27, 29}

\* A fortress with the row in front of it.
FortressAreas ==
  { {<<row, column>> : row \in 0..3, column \in 3..5},
    {<<row, column>> : row \in 6..9, column \in 3..5} }

\* The members of a set of pieces in creation order.
InOrder(set) ==
  [i \in 1..Cardinality(set) |->
     CHOOSE piece \in set : Cardinality({other \in set : other < piece}) = i - 1]

\* The game whose board holds the pieces of placed, a function from pieces
\* to positions, with Blue to move.
placed_game(placed) ==
  [board |-> [row \in 1..10 |->
                [column \in 1..9 |->
                   IF \E piece \in DOMAIN placed : placed[piece] = <<row - 1, column - 1>>
                   THEN CHOOSE piece \in DOMAIN placed : placed[piece] = <<row - 1, column - 1>>
                   ELSE Empty]],
   blue_pieces |-> InOrder({piece \in DOMAIN placed : get_owner(piece) = "blue"}),
   red_pieces |-> InOrder({piece \in DOMAIN placed : get_owner(piece) = "red"}),
   location |-> [piece \in Pieces |->
                   IF piece \in DOMAIN placed THEN placed[piece] ELSE None],
   game_state |-> "UNFINISHED",
   current_turn |-> "blue"]

\* The game object is g and no call has been made.
Starts(g) ==
  /\ board = g.board
  /\ blue_pieces = g.blue_pieces
  /\ red_pieces = g.red_pieces
  /\ location = g.location
  /\ game_state = g.game_state
  /\ current_turn = g.current_turn
  /\ scenario = 1
  /\ pc = 0
  /\ probed = FALSE
  /\ call = <<"JanggiGame">>
  /\ ret = TRUE

InitMoves ==
  \E subject \in SubjectPieces :
    \/ \E spot \in BoardCells : \E g \in {placed_game(subject :> spot)} : Starts(g)
    \/ \E area \in FortressAreas : \E spot \in area :
         \E others \in {set \in SUBSET OtherPieces : Cardinality(set) <= MaxOthers} :
           \E placed \in [others -> area \ {spot}] :
             /\ \A p \in others, q \in others : p # q => placed[p] # placed[q]
             /\ \E g \in {placed_game((subject :> spot) @@ placed)} : Starts(g)

\* piece.get_legal_moves(board, opposition positions) of a piece in play.
GetLegalMoves(piece) ==
  /\ location[piece] # None
  /\ call' = <<"get_legal_moves", piece>>
  /\ ret' = legal_moves_of(game, piece)
  /\ UNCHANGED <<game_vars, scenario, pc, probed>>

\* The subject's moves are asked for.
NextMoves == \E piece \in SubjectPieces : GetLegalMoves(piece)

SpecMoves == InitMoves /\ [][NextMoves]_vars

(***************************************************************************)
(* Properties.  call and ret hold the last call and what it returned, so a *)
(* property of a call is a property of the step that makes it: the         *)
(* unprimed variables are the game before the call, the primed ones the    *)
(* game after it.                                                          *)
(***************************************************************************)

\* The same pieces are in the list, whatever their order.
SameMembers(before, after) ==
  Len(before) = Len(after) /\ Range(before) = Range(after)

Won(player) == IF player = "blue" THEN "BLUE_WON" ELSE "RED_WON"

\* The pieces of a player that are in play.
live(g, player) == IF player = "blue" THEN Range(g.blue_pieces) ELSE Range(g.red_pieces)

\* The player's General is attacked: its location is among the legal moves
\* of a live piece of the other side.
Attacked(g, player) ==
  \E general \in live(g, player), piece \in live(g, Other(player)) :
    /\ get_type(general) = "General"
    /\ g.location[general] \in legal_moves_of(g, piece)

\* C1: a make_move call that returns False leaves the board, the turn, the
\* game state, the membership of both lists and the location of every piece
\* as they were.
C1_RejectedMoveChangesNothing ==
  [][(call'[1] = "make_move" /\ ret' = FALSE)
       => /\ board' = board
          /\ current_turn' = current_turn
          /\ game_state' = game_state
          /\ SameMembers(blue_pieces, blue_pieces')
          /\ SameMembers(red_pieces, red_pieces')
          /\ location' = location]_vars

\* A move of the player to move, to a legal target that holds a piece, has
\* been rejected: its simulation took the piece off and put it back.
C1_Witness ==
  /\ call[1] = "make_move" /\ ret = FALSE /\ call[2] # call[3]
  /\ game_state = "UNFINISHED"
  /\ At(board, to_row_column(call[2])) # Empty
  /\ get_owner(At(board, to_row_column(call[2]))) = current_turn
  /\ to_row_column(call[3]) \in legal_moves_of(game, At(board, to_row_column(call[2])))
  /\ At(board, to_row_column(call[3])) # Empty

\* C2: once the game state is RED_WON or BLUE_WON it stays so, every later
\* make_move call returns False, and the turn, the board and both lists never
\* change again.
C2_FinishedGameIsFrozen ==
  [][game_state # "UNFINISHED"
       => /\ game_state' = game_state
          /\ current_turn' = current_turn
          /\ board' = board
          /\ SameMembers(blue_pieces, blue_pieces')
          /\ SameMembers(red_pieces, red_pieces')
          /\ (call'[1] = "make_move" => ret' = FALSE /\ UNCHANGED game_vars)]_vars

\* In a finished game, a move of the winner's own piece to one of its legal
\* targets has been tried and rejected.
C2_Witness ==
  /\ game_state # "UNFINISHED"
  /\ probed /\ call[1] = "make_move" /\ ret = FALSE
  /\ At(board, to_row_column(call[2])) # Empty
  /\ get_owner(At(board, to_row_column(call[2]))) = current_turn
  /\ to_row_column(call[3]) \in legal_moves_of(game, At(board, to_row_column(call[2])))

\* The five conditions of a move from move_from to another square move_to.
Acceptable(g, move_from, move_to) ==
  LET from_position == to_row_column(move_from)
      to_position == to_row_column(move_to)
      piece == At(g.board, from_position)
  IN /\ g.game_state = "UNFINISHED"
     /\ piece # Empty
     /\ get_owner(piece) = g.current_turn
     /\ to_position \in legal_moves_of(g, piece)
     /\ ~Attacked(update_board(g, from_position, to_position), g.current_turn)

\* C3: make_move(from, to) with from # to returns True exactly when the game
\* is unfinished, the origin holds a piece, the piece belongs to the player to
\* move, the target is among the piece's legal moves, and the move made does
\* not leave the mover's own General in check.
C3_MoveAcceptedIff ==
  [][(call'[1] = "make_move" /\ call'[2] # call'[3])
       => (ret' = Acceptable(game, call'[2], call'[3]))]_vars

\* A move off the script that takes a piece has been accepted.
C3_Witness ==
  /\ probed /\ call[1] = "make_move" /\ call[2] # call[3] /\ ret = TRUE
  /\ Len(blue_pieces) + Len(red_pieces) < 32
  /\ At(board, to_row_column(call[2])) = Empty
  /\ At(board, to_row_column(call[3])) # Empty

\* C4: make_move(p, p) on a cell that holds a piece of the player to move, in
\* an unfinished game, returns True exactly when that player is not in check;
\* then the turn changes and nothing else does, and when the player is in
\* check the call changes nothing.
C4_PassIffNotInCheck ==
  [][(/\ call'[1] = "make_move" /\ call'[2] = call'[3]
      /\ game_state = "UNFINISHED"
      /\ At(board, to_row_column(call'[2])) # Empty
      /\ get_owner(At(board, to_row_column(call'[2]))) = current_turn)
       => /\ ret' = ~Attacked(game, current_turn)
          /\ ret' => /\ current_turn' = Other(current_turn)
                     /\ UNCHANGED <<board, blue_pieces, red_pieces, location, game_state>>
          /\ ~ret' => UNCHANGED game_vars]_vars

\* A pass off the script has been accepted: the turn went to the other side
\* of the piece named.
C4_Witness ==
  /\ probed /\ call[1] = "make_move" /\ call[2] = call[3] /\ ret = TRUE
  /\ At(board, to_row_column(call[2])) # Empty
  /\ get_owner(At(board, to_row_column(call[2]))) = Other(current_turn)

\* C5: after a make_move call from one square to another that returned True,
\* the General of the player who moved is not attacked by any live piece of
\* the other side.
C5_MoverNotInCheck ==
  (call[1] = "make_move" /\ call[2] # call[3] /\ ret = TRUE)
    => ~Attacked(game, get_owner(At(board, to_row_column(call[3]))))

\* A player in check has made a move off the script that was accepted.
C5_Witness ==
  /\ probed /\ call[1] = "make_move" /\ call[2] # call[3] /\ ret = TRUE
  /\ Script = check_game

\* C7: the turn goes to the other player on every accepted move or pass that
\* does not end the game, stays with the mover on the move that ends it, and
\* stays as it is on every rejected call; in a finished game the player to
\* move is the winner.
C7_TurnArbitration ==
  /\ [][call'[1] = "make_move"
          => /\ (ret' /\ game_state' = "UNFINISHED") => current_turn' = Other(current_turn)
             /\ (ret' /\ game_state' # "UNFINISHED")
                  => current_turn' = current_turn /\ game_state' = Won(current_turn)
             /\ ~ret' => current_turn' = current_turn]_vars
  /\ [](game_state # "UNFINISHED" => game_state = Won(current_turn))

\* A move off the script has ended the game.
C7_Witness ==
  /\ probed /\ call[1] = "make_move" /\ ret = TRUE
  /\ game_state = Won(current_turn)

\* The player is in check and no legal move of any of its live pieces leaves
\* its General out of check.
Mated(g, player) ==
  /\ Attacked(g, player)
  /\ \A piece \in live(g, player) :
       \A move_to \in legal_moves_of(g, piece) :
         Attacked(update_board(g, g.location[piece], move_to), player)

\* C6: an accepted make_move call of player P sets the game state to P's win
\* exactly when, after the move, the other player is in check and no legal
\* move of any of its live pieces leaves its General out of check; otherwise
\* the state stays UNFINISHED.  So in every state with a win recorded the
\* losing side is in check and has no escaping move.
C6_WinIffMate ==
  /\ [][(call'[1] = "make_move" /\ ret' = TRUE)
          => game_state' = IF Mated(game', Other(current_turn))
                           THEN Won(current_turn) ELSE "UNFINISHED"]_vars
  /\ [](game_state = "BLUE_WON" => Mated(game, "red"))
  /\ [](game_state = "RED_WON" => Mated(game, "blue"))

\* C8: leaves_in_check(from, to), for any origin that holds a piece and any
\* to, the origin itself included, leaves the board, the membership of both
\* lists and the location of every piece as they were before the call.
C8_SimulationRestoresGame ==
  [][call'[1] = "leaves_in_check"
       => /\ board' = board
          /\ SameMembers(blue_pieces, blue_pieces')
          /\ SameMembers(red_pieces, red_pieces')
          /\ location' = location]_vars

\* C9: after leaves_in_check, after a make_move call that returned False and
\* after is_check_mate, each list holds the same pieces in the same order as
\* before the call.
C9_SimulationRestoresOrder ==
  [][(\/ call'[1] = "leaves_in_check"
      \/ call'[1] = "is_check_mate"
      \/ call'[1] = "make_move" /\ ret' = FALSE)
       => blue_pieces' = blue_pieces /\ red_pieces' = red_pieces]_vars

\* C10: for every live piece, get_legal_moves returns no cell that holds a
\* piece of the same owner.
C10_NoFriendlyTarget ==
  \A piece \in Range(blue_pieces) \cup Range(red_pieces) :
    \A move_to \in legal_moves_of(game, piece) :
      At(board, move_to) = Empty \/ get_owner(At(board, move_to)) # get_owner(piece)

(***************************************************************************)
(* Properties of get_legal_moves.  After the call get_legal_moves of       *)
(* SpecMoves, call[2] is the piece asked, location[call[2]] its position   *)
(* and ret the set returned.                                               *)
(***************************************************************************)

\* The pieces in play.
InPlay == Range(blue_pieces) \cup Range(red_pieces)

\* The positions strictly between two positions of one row or one column.
Between(a, b) ==
  {c \in BoardCells :
     \/ /\ a[1] = b[1] /\ c[1] = a[1]
        /\ (a[2] < c[2] /\ c[2] < b[2]) \/ (b[2] < c[2] /\ c[2] < a[2])
     \/ /\ a[2] = b[2] /\ c[2] = a[2]
        /\ (a[1] < c[1] /\ c[1] < b[1]) \/ (b[1] < c[1] /\ c[1] < a[1])}

\* The position holds a Cannon.
HoldsCannon(spot) == At(board, spot) # Empty /\ get_type(At(board, spot)) = "Cannon"

\* The center of the fortress a corner belongs to.
CenterOf(corner) == IF corner \in RedFortress THEN <<1, 4>> ELSE <<8, 4>>

\* The opposite corner of a fortress corner.
OppositeCorner(corner) == (red_corners @@ blue_corners)[corner]

\* C11: the set get_legal_moves returns never holds the piece's own position
\* and never a position outside the board of ten rows and nine columns.
C11_MovesOnBoardNotOrigin ==
  call[1] = "get_legal_moves" =>
    \A move_to \in ret : move_to \in BoardCells /\ move_to # location[call[2]]

\* C11 happens: a Horse in the corner (0, 0) of an otherwise empty board keeps
\* two of its eight jumps.
C11_Witness ==
  /\ call[1] = "get_legal_moves"
  /\ get_type(call[2]) = "Horse"
  /\ location[call[2]] = <<0, 0>>
  /\ ret = {<<1, 2>>, <<2, 1>>}

\* C12: no Cannon in play has the position of another Cannon among its legal
\* moves, on a row, a column or the corner-to-corner diagonal of a fortress,
\* and no Cannon stands between a Cannon and one of its legal moves.
C12_CannonNeverMeetsCannon ==
  \A piece \in InPlay :
    get_type(piece) = "Cannon" =>
      \A move_to \in legal_moves_of(game, piece) :
        /\ ~HoldsCannon(move_to)
        /\ \A spot \in Between(location[piece], move_to) : ~HoldsCannon(spot)
        /\ (move_to[1] # location[piece][1] /\ move_to[2] # location[piece][2])
             => ~HoldsCannon(CenterOf(move_to))

\* C13: a Cannon in play on a corner of a fortress has the opposite corner
\* among its legal moves exactly when the center of that fortress holds a
\* piece that is not a Cannon.
C13_CornerJumpIffCenterScreen ==
  \A piece \in InPlay :
    (get_type(piece) = "Cannon" /\ location[piece] \in DOMAIN (red_corners @@ blue_corners)) =>
      (OppositeCorner(location[piece]) \in legal_moves_of(game, piece)
         <=> (At(board, CenterOf(location[piece])) # Empty
              /\ ~HoldsCannon(CenterOf(location[piece]))))

\* The position is empty or holds a piece of the other side than the piece's
\* that is not a Cannon.
CannonTarget(piece, spot) ==
  \/ At(board, spot) = Empty
  \/ /\ get_owner(At(board, spot)) # get_owner(piece)
     /\ get_type(At(board, spot)) # "Cannon"

\* The positions strictly between the piece and the spot that hold a piece.
Screens(piece, spot) ==
  {between \in Between(location[piece], spot) : At(board, between) # Empty}

\* C14: a position on the row or the column of a Cannon is among the moves
\* get_legal_moves returns exactly when one piece stands strictly between
\* the Cannon and the position, that piece is not a Cannon, and the position
\* is empty or holds a piece of the other side that is not a Cannon.
C14_CannonJumpsOneScreen ==
  (call[1] = "get_legal_moves" /\ get_type(call[2]) = "Cannon") =>
    \A spot \in BoardCells \ {location[call[2]]} :
      (spot[1] = location[call[2]][1] \/ spot[2] = location[call[2]][2]) =>
        (spot \in ret
           <=> /\ Cardinality(Screens(call[2], spot)) = 1
               /\ \A screen \in Screens(call[2], spot) : ~HoldsCannon(screen)
               /\ CannonTarget(call[2], spot))

\* C14 happens: a Cannon has jumped one piece of its column onto a piece of
\* the other side, and the empty position next to it on the other side of
\* that column, with nothing to jump, is refused.
C14_Witness ==
  /\ call[1] = "get_legal_moves"
  /\ get_type(call[2]) = "Cannon"
  /\ \E spot \in ret :
       /\ spot[2] = location[call[2]][2]
       /\ At(board, spot) # Empty
       /\ Cardinality(Screens(call[2], spot)) = 1
  /\ \E spot \in BoardCells \ ret :
       /\ spot[2] = location[call[2]][2]
       /\ Screens(call[2], spot) = {}
       /\ At(board, spot) = Empty

\* The row a Soldier advances by: down the board (+1) for Red, up the board
\* (-1) for Blue.
Forward(piece) == IF get_owner(piece) = "red" THEN 1 ELSE 0 - 1

\* The three positions of the opposing fortress from which a Soldier that
\* advances by forward steps diagonally.
SoldierDiagonalOrigins(forward) ==
  IF forward = 1 THEN {<<7, 3>>, <<7, 5>>, <<8, 4>>} ELSE {<<2, 3>>, <<2, 5>>, <<1, 4>>}

\* What get_legal_moves returned for the Soldier call[2] follows the rule of
\* a Soldier that advances by forward: the position one row forward is
\* returned when it is on the board and not held by a friendly piece, and
\* every position returned is that one, one column to the side, or, from the
\* three positions of the opposing fortress, one row forward and one column
\* to the side along a diagonal line.
SoldierRule(forward) ==
  LET self == location[call[2]]
      ahead == <<self[1] + forward, self[2]>>
  IN /\ (ahead \in BoardCells
          /\ (At(board, ahead) = Empty
              \/ get_owner(At(board, ahead)) # get_owner(call[2])))
          => ahead \in ret
     /\ \A move_to \in ret :
          \/ move_to = ahead
          \/ move_to[1] = self[1] /\ move_to[2] \in {self[2] - 1, self[2] + 1}
          \/ /\ self \in SoldierDiagonalOrigins(forward)
             /\ move_to[1] = self[1] + forward
             /\ move_to[2] \in {self[2] - 1, self[2] + 1}
             /\ move_to \in BlueDiagonalSpots \cup RedDiagonalSpots

\* C15, as the code has it: a Red Soldier advances by row + 1 and a Blue one
\* by row - 1; besides the step forward a Soldier only steps one column to
\* the side and, from the three positions of the opposing fortress,
\* diagonally forward.
C15_SoldierAdvancesTowardsOpponent ==
  (call[1] = "get_legal_moves" /\ get_type(call[2]) = "Soldier") =>
    SoldierRule(Forward(call[2]))

\* C15, as stated: a Red Soldier advances by row - 1 and a Blue one by
\* row + 1.
C15_SoldierAdvancesAsStated ==
  (call[1] = "get_legal_moves" /\ get_type(call[2]) = "Soldier") =>
    SoldierRule(0 - Forward(call[2]))

\* C15 happens: a Red Soldier in the blue fortress has a diagonal move
\* forward, and a Blue Soldier has a move up the board.
C15_Witness ==
  /\ call[1] = "get_legal_moves"
  /\ get_type(call[2]) = "Soldier"
  /\ \/ get_owner(call[2]) = "red" /\ location[call[2]] = <<7, 3>> /\ <<8, 4>> \in ret
     \/ get_owner(call[2]) = "blue" /\ location[call[2]] = <<6, 4>> /\ <<5, 4>> \in ret

\* C16: for a General, Guard, Soldier, Chariot or Cannon, every position
\* get_legal_moves returns that differs from the piece's in row and in
\* column lies on a diagonal line of the fortress the piece stands in: the
\* piece stands on a corner or the center of a fortress and the position is
\* a corner or the center of the same fortress, as many rows as columns away.
C16_DiagonalsStayInFortress ==
  (call[1] = "get_legal_moves"
   /\ get_type(call[2]) \in {"General", "Guard", "Soldier", "Chariot", "Cannon"}) =>
    \A move_to \in ret :
      (move_to[1] # location[call[2]][1] /\ move_to[2] # location[call[2]][2]) =>
        /\ \E spots \in {RedDiagonalSpots, BlueDiagonalSpots} :
             location[call[2]] \in spots /\ move_to \in spots
        /\ (move_to[1] - location[call[2]][1]) * (move_to[1] - location[call[2]][1])
             = (move_to[2] - location[call[2]][2]) * (move_to[2] - location[call[2]][2])

\* C16 happens: a Chariot on the corner (0, 3) slides over the center to the
\* opposite corner, and a Chariot beside the fortress has no diagonal move.
C16_Witness ==
  /\ call[1] = "get_legal_moves"
  /\ get_type(call[2]) = "Chariot"
  /\ location[call[2]] = <<0, 3>>
  /\ {<<1, 4>>, <<2, 5>>} \subseteq ret

(***************************************************************************)
(* Properties of the games of Spec.                                        *)
(***************************************************************************)

\* The fortress of a side.
own_fortress(player) == IF player = "blue" THEN BlueFortress ELSE RedFortress

\* The last call was a make_move from one square to another that returned
\* True.
Moved ==
  call[1] = "make_move" /\ ret = TRUE /\ call[2] # call[3]

\* C17: in every state the games reach, every General and Guard in play
\* stands in the fortress of its own side, and every accepted move of a
\* General or Guard changes its row and its column by at most one.
C17_FortressPiecesStayHome ==
  /\ [](\A piece \in InPlay :
          get_type(piece) \in {"General", "Guard"}
            => location[piece] \in own_fortress(get_owner(piece)))
  /\ [][\A piece \in Pieces :
          (Moved' /\ get_type(piece) \in {"General", "Guard"}
           /\ location[piece] = to_row_column(call'[2])
           /\ location'[piece] = to_row_column(call'[3]))
          => /\ location'[piece][1] - location[piece][1] \in {0 - 1, 0, 1}
             /\ location'[piece][2] - location[piece][2] \in {0 - 1, 0, 1}]_vars

\* C17 happens: a General or a Guard has just moved.
C17_Witness ==
  /\ Moved
  /\ At(board, to_row_column(call[3])) # Empty
  /\ get_type(At(board, to_row_column(call[3]))) \in {"General", "Guard"}

\* C18: in every state the games reach, the list of each side holds exactly
\* one General, and it stands on the board at its location.
C18_GeneralsNeverCaptured ==
  \A player \in {"blue", "red"} :
    /\ Cardinality({piece \in live(game, player) : get_type(piece) = "General"}) = 1
    /\ \A piece \in live(game, player) :
         get_type(piece) = "General" =>
           location[piece] \in BoardCells /\ At(board, location[piece]) = piece

\* C19: in every state the games reach, the board, the lists and the
\* locations agree: a list holds a piece once and only pieces of its side,
\* a piece in play stands on the position that is its location, a position
\* holds at most one piece, which is in play and has that position as its
\* location (so no piece stands on two positions, no two pieces in play
\* share one, and a captured piece stands on none), and a captured piece, in
\* neither list, has no location.
C19_BoardAndPiecesAgree ==
  \A in_play \in {InPlay} :
    /\ \A i \in DOMAIN blue_pieces, j \in DOMAIN blue_pieces :
         blue_pieces[i] = blue_pieces[j] => i = j
    /\ \A i \in DOMAIN red_pieces, j \in DOMAIN red_pieces :
         red_pieces[i] = red_pieces[j] => i = j
    /\ \A piece \in Range(blue_pieces) : get_owner(piece) = "blue"
    /\ \A piece \in Range(red_pieces) : get_owner(piece) = "red"
    /\ \A piece \in in_play :
         location[piece] \in BoardCells /\ At(board, location[piece]) = piece
    /\ \A spot \in BoardCells :
         At(board, spot) # Empty =>
           At(board, spot) \in in_play /\ location[At(board, spot)] = spot
    /\ \A piece \in Pieces \ in_play : location[piece] = None

\* C19 happens: pieces of both sides have been captured and a move has just
\* been refused.
C19_Witness ==
  /\ call[1] = "make_move"
  /\ ret = FALSE
  /\ \E piece \in Pieces \ InPlay : get_owner(piece) = "blue"
  /\ \E piece \in Pieces \ InPlay : get_owner(piece) = "red"

\* C20: an accepted make_move from one square to another leaves the origin
\* empty and the moved piece on the target with the target as its location;
\* the piece that stood on the target, if any, is out of its list and has no
\* location; every other position, every other piece's location and, but
\* for that piece, the members of both lists are as before.
C20_MoveCommitsExactly ==
  [][Moved' =>
       \E move_from \in {to_row_column(call'[2])}, move_to \in {to_row_column(call'[3])} :
         \E piece \in {At(board, move_from)}, taken \in {At(board, move_to)} :
           /\ At(board', move_from) = Empty
           /\ At(board', move_to) = piece
           /\ location'[piece] = move_to
           /\ taken # Empty =>
                /\ taken \notin Range(blue_pieces') \cup Range(red_pieces')
                /\ location'[taken] = None
           /\ \A spot \in BoardCells \ {move_from, move_to} :
                At(board', spot) = At(board, spot)
           /\ \A other \in Pieces \ {piece, taken} : location'[other] = location[other]
           /\ Range(blue_pieces') = Range(blue_pieces) \ {taken}
           /\ Range(red_pieces') = Range(red_pieces) \ {taken}
           /\ Len(blue_pieces') + Len(red_pieces')
                = Len(blue_pieces) + Len(red_pieces) - (IF taken = Empty THEN 0 ELSE 1)]_vars

\* C20 happens: a piece has just moved onto the position of another, which
\* is now out of the game.
C20_Witness ==
  /\ Moved
  /\ Len(blue_pieces) + Len(red_pieces) < Len(piece_table)
  /\ \E piece \in Pieces \ InPlay :
       piece_table[piece].location = to_row_column(call[3])

(***************************************************************************)
(* The games of main().                                                    *)
(***************************************************************************)

\* What the calls of the test of lines 1078-1088 are said to return, in the
\* order of readme_test.
readme_said == << FALSE, TRUE, TRUE, TRUE, FALSE, TRUE, TRUE, TRUE >>

\* C21: in the opening test of main(), c1-e3 returns False, a7-b7 True,
\* is_in_check("blue") asked then is False, a4-a5 returns True and the state
\* is UNFINISHED, b7-b6 returns True, b3-b6 False, a1-a4 True, c7-d7 True and
\* a4-a4 True; that last call passes the turn from Red to Blue and leaves the
\* board as it was.
C21_OpeningTest ==
  /\ []((Script = readme_test /\ ~probed) =>
          /\ (pc >= 1 /\ call[1] = "make_move") => ret = readme_said[pc]
          /\ (pc = 2 /\ call = <<"is_in_check", "blue">>) => ret = FALSE
          /\ pc = 3 => game_state = "UNFINISHED")
  /\ [][(Script = readme_test /\ ~probed' /\ pc = 7 /\ pc' = 8) =>
          /\ call' = <<"make_move", <<"a", 4>>, <<"a", 4>>>>
          /\ ret' = TRUE
          /\ current_turn = "red" /\ current_turn' = "blue"
          /\ board' = board]_vars

\* C21 happens: the opening test has been played to its end.
C21_Witness ==
  /\ Script = readme_test
  /\ ~probed
  /\ pc = Len(readme_test)
  /\ call = <<"make_move", <<"a", 4>>, <<"a", 4>>>>
  /\ At(board, <<3, 0>>) # Empty
  /\ get_type(At(board, <<3, 0>>)) = "Chariot"

\* What the calls of the recorded game of lines 1096-1287 are said to
\* return, in the order of recorded_game: the comment of every make_move
\* call, False for the is_check_mate of line 1144 and True for that of line
\* 1284.
recorded_said ==
  <<
     TRUE, TRUE, FALSE, TRUE, FALSE, TRUE, TRUE, TRUE, FALSE,
     TRUE, FALSE, TRUE, TRUE, FALSE, TRUE, FALSE, FALSE, FALSE,
     TRUE, TRUE, FALSE, TRUE, FALSE, TRUE, FALSE, TRUE, FALSE,
     FALSE, TRUE, TRUE, TRUE, TRUE, TRUE, TRUE, FALSE, TRUE,
     TRUE, TRUE, TRUE, TRUE, TRUE, TRUE, TRUE, TRUE, TRUE,
     TRUE, TRUE, TRUE, TRUE, TRUE, TRUE, TRUE, TRUE, TRUE,
     TRUE, TRUE, TRUE, TRUE, TRUE, TRUE, TRUE, TRUE, TRUE,
     TRUE, TRUE, FALSE, TRUE, TRUE, TRUE, TRUE, TRUE, TRUE,
     TRUE, TRUE, TRUE, TRUE, TRUE, TRUE, TRUE, TRUE, TRUE,
     TRUE, TRUE, TRUE, TRUE, TRUE, TRUE, TRUE, TRUE, TRUE,
     TRUE, TRUE, TRUE, TRUE, TRUE, TRUE, TRUE, FALSE, FALSE
  >>

\* The place of the mating move f3-e2 of line 1282 in recorded_game.
mating_call == Len(recorded_game) - 3

\* C22: in the recorded game of main(), every call returns what its comment
\* says; the state is UNFINISHED until the move f3-e2 and BLUE_WON from that
\* move on; after that move Red is in check and has no escaping move,
\* is_check_mate("red") is True, and the two make_move calls that follow
\* return False.
C22_RecordedGame ==
  (Script = recorded_game /\ ~probed) =>
    /\ (pc >= 1 /\ call[1] \in {"make_move", "is_check_mate"}) => ret = recorded_said[pc]
    /\ game_state = IF pc >= mating_call THEN "BLUE_WON" ELSE "UNFINISHED"
    /\ pc = mating_call =>
         /\ recorded_game[pc] = <<"make_move", <<"f", 3>>, <<"e", 2>>>>
         /\ get_type(At(board, <<1, 4>>)) = "Chariot"
         /\ get_owner(At(board, <<1, 4>>)) = "blue"
         /\ \A piece \in Range(red_pieces) : get_type(piece) # "Guard"
         /\ Mated(game, "red")
    /\ pc = mating_call + 1 => recorded_game[pc] = <<"is_check_mate", "red">>
    /\ pc > mating_call + 1 => recorded_game[pc][1] = "make_move" /\ ~recorded_said[pc]

\* C22 happens: the recorded game has been played to its last call, which
\* was refused.
C22_Witness ==
  /\ Script = recorded_game
  /\ ~probed
  /\ pc = Len(recorded_game)
  /\ call = <<"make_move", <<"e", 2>>, <<"e", 2>>>>
  /\ ret = FALSE
  /\ game_state = "BLUE_WON"

(***************************************************************************)
(* More properties of get_legal_moves (SpecMoves).                         *)
(***************************************************************************)

\* The four orthogonal steps, as <<rows, columns>>.
OrthogonalSteps == {<<1, 0>>, <<0 - 1, 0>>, <<0, 1>>, <<0, 0 - 1>>}

\* The two diagonal steps that continue an orthogonal step away from the
\* origin.
DiagonalStepsAfter(step) ==
  {diagonal \in {<<1, 1>>, <<1, 0 - 1>>, <<0 - 1, 1>>, <<0 - 1, 0 - 1>>} :
     /\ step[1] # 0 => diagonal[1] = step[1]
     /\ step[2] # 0 => diagonal[2] = step[2]}

\* The position n times a step away from a position.
Away(spot, step, n) == <<spot[1] + n * step[1], spot[2] + n * step[2]>>

\* The position is on the board and empty.
Free(spot) == spot \in BoardCells /\ At(board, spot) = Empty

\* The position is on the board and empty or held by a piece of the other
\* side than the piece's.
Landing(piece, spot) ==
  /\ spot \in BoardCells
  /\ At(board, spot) = Empty \/ get_owner(At(board, spot)) # get_owner(piece)

\* C23: a position is among the moves get_legal_moves returns for a Horse
\* (an Elephant) exactly when it is on the board, empty or held by a piece
\* of the other side, and reached by one orthogonal step and then one (two)
\* diagonal steps away from the origin, with every position of that path
\* before the last one empty.
C23_HorseAndElephantPaths ==
  (call[1] = "get_legal_moves" /\ get_type(call[2]) \in {"Horse", "Elephant"}) =>
    \A self \in {location[call[2]]}, last \in {IF get_type(call[2]) = "Horse" THEN 1 ELSE 2} :
      ret = {spot \in {Away(Away(self, step[1], 1), step[2], last) :
                         step \in {<<first, diagonal>> \in
                                     OrthogonalSteps \X {<<1, 1>>, <<1, 0 - 1>>, <<0 - 1, 1>>,
                                                         <<0 - 1, 0 - 1>>} :
                                     diagonal \in DiagonalStepsAfter(first)}} :
               /\ Landing(call[2], spot)
               /\ \E first \in OrthogonalSteps :
                    \E diagonal \in DiagonalStepsAfter(first) :
                      /\ spot = Away(Away(self, first, 1), diagonal, last)
                      /\ Free(Away(self, first, 1))
                      /\ \A n \in 1..(last - 1) : Free(Away(Away(self, first, 1), diagonal, n))}

\* C23 happens: an Elephant with a piece on the first diagonal position of
\* one path, which is refused, takes a piece of the other side at the end of
\* another.
C23_Witness ==
  /\ call[1] = "get_legal_moves"
  /\ get_type(call[2]) = "Elephant"
  /\ \E spot \in ret : At(board, spot) # Empty
  /\ \E step \in OrthogonalSteps :
       \E diagonal \in DiagonalStepsAfter(step) :
         /\ Free(Away(location[call[2]], step, 1))
         /\ Away(Away(location[call[2]], step, 1), diagonal, 1) \in BoardCells
         /\ ~Free(Away(Away(location[call[2]], step, 1), diagonal, 1))
         /\ Free(Away(Away(location[call[2]], step, 1), diagonal, 2))
         /\ Away(Away(location[call[2]], step, 1), diagonal, 2) \notin ret

\* The positions strictly between two positions of one diagonal line of a
\* fortress: its center when they are opposite corners.
DiagonalBetween(a, b) ==
  IF (a[1] - b[1]) * (a[1] - b[1]) = 4 THEN {CenterOf(a)} ELSE {}

\* Both positions are corners or the center of one fortress and lie on one
\* of its diagonal lines.
OnFortressDiagonal(a, b) ==
  /\ \E spots \in {RedDiagonalSpots, BlueDiagonalSpots} : a \in spots /\ b \in spots
  /\ a[1] # b[1]
  /\ (a[1] - b[1]) * (a[1] - b[1]) = (a[2] - b[2]) * (a[2] - b[2])

\* C24: a position is among the moves get_legal_moves returns for a Chariot
\* exactly when it is on the Chariot's row or column, or on a diagonal line
\* of the fortress on whose corner or center the Chariot stands, every
\* position strictly between the two is empty, and the position is empty or
\* held by a piece of the other side.
C24_ChariotSlides ==
  (call[1] = "get_legal_moves" /\ get_type(call[2]) = "Chariot") =>
    \A self \in {location[call[2]]} :
      ret = {spot \in BoardCells \ {self} :
               /\ Landing(call[2], spot)
               /\ \/ /\ spot[1] = self[1] \/ spot[2] = self[2]
                     /\ \A between \in Between(self, spot) : At(board, between) = Empty
                  \/ /\ OnFortressDiagonal(self, spot)
                     /\ \A between \in DiagonalBetween(self, spot) :
                          At(board, between) = Empty}

\* C24 happens: a Chariot on a fortress corner takes a piece of the other
\* side on the center and does not reach the opposite corner behind it.
C24_Witness ==
  /\ call[1] = "get_legal_moves"
  /\ get_type(call[2]) = "Chariot"
  /\ location[call[2]] \in DOMAIN (red_corners @@ blue_corners)
  /\ CenterOf(location[call[2]]) \in ret
  /\ At(board, CenterOf(location[call[2]])) # Empty
  /\ Free(OppositeCorner(location[call[2]]))
  /\ OppositeCorner(location[call[2]]) \notin ret

(***************************************************************************)
(* More properties of the games of Spec.                                   *)
(***************************************************************************)

\* C25: is_in_check(player) is True exactly when the location of the
\* player's General is among the moves get_legal_moves returns, for the
\* board and the positions of the player's pieces, for some piece in play of
\* the other side; those moves are taken as returned, whether or not making
\* them would leave the other side's own General attacked.  This is so for
\* the calls made and for the answer the method would give in every game the
\* calls of Spec produce (a refused call produces none: it leaves the game
\* as it was).
C25_CheckIsAttack ==
  /\ call[1] = "is_in_check" => (ret <=> Attacked(game, call[2]))
  /\ (~probed \/ ret = TRUE) =>
       \A player \in {"blue", "red"} : is_in_check(game, player) <=> Attacked(game, player)

\* C25 happens: main()'s is_in_check("red") of line 1143, after the blue
\* Chariot's move a6-d6, has returned True.
C25_Witness ==
  /\ call = <<"is_in_check", "red">>
  /\ ret = TRUE
  /\ Script = check_game
  /\ pc = Len(check_game) - 1

\* C26: an accepted make_move never takes a piece of the player who made
\* the move out of a list: a piece that leaves a list belongs to the other
\* player and stood on the target.
C26_NoFriendlyCapture ==
  [][Moved' =>
       \A piece \in InPlay \ (Range(blue_pieces') \cup Range(red_pieces')) :
         /\ get_owner(piece) # current_turn
         /\ location[piece] = to_row_column(call'[3])]_vars

\* C27: in every state of an unfinished game the player who is not to move
\* is not in check: the General of that player is attacked by no piece in
\* play of the player to move.
C27_WaitingSideNotInCheck ==
  game_state = "UNFINISHED" => ~Attacked(game, Other(current_turn))

\* C27 happens: Red, in check after the blue Chariot's move a6-d6, has
\* answered with a move that ends the check, and the game goes on.
C27_Witness ==
  /\ Script = recorded_game
  /\ ~probed
  /\ pc = Len(check_game) + 2
  /\ call = <<"make_move", <<"b", 1>>, <<"d", 4>>>>
  /\ ret = TRUE
  /\ current_turn = "blue"
  /\ game_state = "UNFINISHED"

\* The square of a position in algebraic notation.
square_of(position) == CHOOSE square \in Squares : to_row_column(square) = position

\* What make_move(move_from, move_to) returns on game g, over every way the
\* call can run.
Returns(g, move_from, move_to) ==
  {outcome.ret : outcome \in make_move(g, square_of(move_from), square_of(move_to))}

RosterOf(type) ==
  IF type = "General" THEN 1 ELSE IF type = "Soldier" THEN 5 ELSE 2

\* The rows a side starts on and the position of its General.
HomeRows(player) == IF player = "blue" THEN 6..9 ELSE 0..3

GeneralStart(player) == IF player = "blue" THEN <<8, 4>> ELSE <<1, 4>>

\* C29: a newly constructed game has Blue to move and the status UNFINISHED;
\* each side has 16 pieces in play (1 General, 5 Soldiers, 2 of every other
\* type), each on the board at its location, Red's on rows 0-3 and Blue's on
\* rows 6-9, the Generals on (1,4) and (8,4); every other position is empty
\* and neither side is in check.
C29_InitialState ==
  call = <<"JanggiGame">> =>
    /\ current_turn = "blue"
    /\ game_state = "UNFINISHED"
    /\ Len(blue_pieces) = 16
    /\ Len(red_pieces) = 16
    /\ \A player \in {"blue", "red"} :
         /\ Cardinality(live(game, player)) = 16
         /\ \A type \in {"General", "Guard", "Horse", "Elephant", "Chariot",
                         "Cannon", "Soldier"} :
              Cardinality({piece \in live(game, player) : get_type(piece) = type})
                = RosterOf(type)
         /\ \A piece \in live(game, player) :
              /\ get_owner(piece) = player
              /\ location[piece] \in BoardCells
              /\ location[piece][1] \in HomeRows(player)
              /\ At(board, location[piece]) = piece
              /\ get_type(piece) = "General" => location[piece] = GeneralStart(player)
         /\ ~is_in_check(game, player)
         /\ ~Attacked(game, player)
    /\ Cardinality({spot \in BoardCells : At(board, spot) # Empty}) = 32
    /\ \A spot \in BoardCells : At(board, spot) # Empty => At(board, spot) \in InPlay

\* C29 happens: the game has just been constructed and no call made on it.
C29_Witness ==
  /\ call = <<"JanggiGame">>
  /\ pc = 0
  /\ ~probed
  /\ Script = recorded_game

\* The number of pieces in the two lists.
Material == Len(blue_pieces) + Len(red_pieces)

\* C30: in every state the games reach, only pieces in play stand on the
\* board, and across every call a piece that is out of the lists stays out
\* of them, neither list grows, the two lists together lose at most one
\* piece, and they lose none unless the call is a make_move from one square
\* to another that returns True.
C30_CaptureIsPermanent ==
  /\ [](\A spot \in BoardCells : At(board, spot) # Empty => At(board, spot) \in InPlay)
  /\ [][/\ InPlay' \subseteq InPlay
        /\ Len(blue_pieces') <= Len(blue_pieces)
        /\ Len(red_pieces') <= Len(red_pieces)
        /\ Material' >= Material - 1
        /\ ~Moved' => /\ Len(blue_pieces') = Len(blue_pieces)
                      /\ Len(red_pieces') = Len(red_pieces)]_vars

\* C30 happens: after captures on both sides a player has passed.
C30_Witness ==
  /\ call[1] = "make_move"
  /\ ret = TRUE
  /\ call[2] = call[3]
  /\ \E piece \in Pieces \ InPlay : get_owner(piece) = "blue"
  /\ \E piece \in Pieces \ InPlay : get_owner(piece) = "red"
====
